---- MODULE Spec2Model ----
(***************************************************************************)
(* Weather store of the Weather-App dashboard (WeatherProvider in          *)
(* src/context/WeatherContext.jsx), together with the API client it calls  *)
(* and the browser storage it persists to.                                 *)
(*                                                                         *)
(* The JavaScript event loop is single threaded: an event handler and the  *)
(* continuation of an await run to completion, so each action below is     *)
(* one handler or one continuation.  State updates issued by one handler   *)
(* are batched by React and become visible together.                       *)
(***************************************************************************)
EXTENDS Integers, Sequences, FiniteSets, TLC

(***************************************************************************)
(* Bounds of the model                                                     *)
(***************************************************************************)
\* total number of load operations (loadWeather / loadWeatherByCoords) started
MaxStarted == 3
\* the same, in the specification that starts from every persisted content
BootStarted == 2
\* the same, in the specification with a fair network
FairStarted == 2
\* number of geolocation lookups that may be pending at once
MaxGeo == 1
\* load operations started in the specification with every kind of failure
ErrorStarted == 2
\* load operations started in the specification with the suggestion lookups
ClientStarted == 2
\* searchCities requests that may be in flight at once
MaxSearches == 2
\* timeouts of the search bar that may be pending at once
MaxTimers == 2
\* calendar days a forecast response covers, and its entries per day
MaxDays == 7
MaxPerDay == 2

(***************************************************************************)
(* Strings                                                                 *)
(***************************************************************************)
DefaultCity == "Kolkata"
\* city names typed into the search bar or picked from the suggestions
CityInputs == {"Paris", "paris"}
\* names reported by the upstream API for a pair of coordinates
\* (it reports the empty name for a position without a known place)
CoordNames == {"Pune", ""}

\* String.prototype.toLowerCase on the strings of the model
toLowerCase(s) ==
    CASE s = "Kolkata" -> "kolkata"
      [] s = "Paris"   -> "paris"
      [] s = "Rome"    -> "rome"
      [] s = "Pune"    -> "pune"
      [] s = "Oslo"    -> "oslo"
      [] s = "Lima"    -> "lima"
      [] s = "Cairo"   -> "cairo"
      [] s = "Delhi"   -> "delhi"
      [] s = "Tokyo"   -> "tokyo"
      [] s = "Quito"   -> "quito"
      [] OTHER         -> s

\* the display name the upstream API reports for a query by city name
ApiName(q) ==
    CASE q = "paris" -> "Paris"
      [] OTHER       -> q

(***************************************************************************)
(* JSON text, as a sequence of tokens.  A token is a pair: punctuation     *)
(* <<"p", c>>, a string literal <<"s", text>>, or a bare word <<"w", text>>*)
(* (which is not JSON).                                                    *)
(***************************************************************************)
LBracket == <<"p", "[">>
RBracket == <<"p", "]">>
Comma    == <<"p", ",">>
LBrace   == <<"p", "{">>
RBrace   == <<"p", "}">>
StrTok(s) == <<"s", s>>
WordTok(s) == <<"w", s>>

RECURSIVE JoinItems(_)
JoinItems(list) ==
    IF Len(list) = 0 THEN <<>>
    ELSE IF Len(list) = 1 THEN <<StrTok(list[1])>>
    ELSE <<StrTok(list[1]), Comma>> \o JoinItems(Tail(list))

\* the list written as String(list) writes it: the items, without brackets
JSONstringify_toString(list) == JoinItems(list)

\* JSON.stringify of an array of strings
JSONstringify(list) == <<LBracket>> \o JoinItems(list) \o <<RBracket>>

\* the elements of a bracketed token list: items separated by single commas
RECURSIVE ParseItems(_)
ParseItems(t) ==
    IF Len(t) = 0 THEN [ok |-> FALSE, items |-> <<>>]
    ELSE IF t[1][1] # "s" THEN [ok |-> FALSE, items |-> <<>>]
    ELSE IF Len(t) = 1 THEN [ok |-> TRUE, items |-> <<t[1][2]>>]
    ELSE IF t[2] # Comma THEN [ok |-> FALSE, items |-> <<>>]
    ELSE LET rest == ParseItems(SubSeq(t, 3, Len(t)))
         IN  [ok |-> rest.ok,
              items |-> IF rest.ok THEN <<t[1][2]>> \o rest.items ELSE <<>>]

\* JSON.parse: ok = FALSE when it throws SyntaxError; isArray is
\* Array.isArray of the parsed value
JSONparse(t) ==
    IF Len(t) = 0 THEN [ok |-> FALSE, isArray |-> FALSE, items |-> <<>>]
    ELSE IF Len(t) = 1 THEN
        [ok |-> t[1][1] = "s", isArray |-> FALSE, items |-> <<>>]
    ELSE IF t = <<LBrace, RBrace>> THEN
        [ok |-> TRUE, isArray |-> FALSE, items |-> <<>>]
    ELSE IF t = <<LBracket, RBracket>> THEN
        [ok |-> TRUE, isArray |-> TRUE, items |-> <<>>]
    ELSE IF t[1] = LBracket /\ t[Len(t)] = RBracket THEN
        LET inner == ParseItems(SubSeq(t, 2, Len(t) - 1))
        IN  [ok |-> inner.ok, isArray |-> inner.ok, items |-> inner.items]
    ELSE [ok |-> FALSE, isArray |-> FALSE, items |-> <<>>]

(***************************************************************************)
(* Browser storage (localStorage).  An entry is absent or holds a string;  *)
(* the 'recentCities' string is kept as its token sequence.                *)
(* storageMode: "ok"       reads and writes succeed                        *)
(*              "full"     reads succeed, setItem throws (quota exceeded)  *)
(*              "disabled" every access throws (storage blocked)           *)
(***************************************************************************)
Absent == [present |-> FALSE, val |-> ""]
Stored(v) == [present |-> TRUE, val |-> v]
AbsentList == [present |-> FALSE, val |-> <<>>]

StorageModes == {"ok", "full", "disabled"}

\* contents found under 'units' and 'theme' when the store is constructed
PersistedUnits == {Absent, Stored(""), Stored("metric"), Stored("imperial"),
                   Stored("celsius")}
PersistedTheme == {Absent, Stored(""), Stored("light"), Stored("blue")}

FiveCities == <<"Oslo", "Lima", "Cairo", "Delhi", "Tokyo">>
SixCities  == <<"Oslo", "Lima", "Cairo", "Delhi", "Tokyo", "Quito">>
\* contents found under 'recentCities' when the store is constructed
PersistedRecent ==
    { AbsentList,
      Stored(<<>>),
      Stored(<<WordTok("oops")>>),
      Stored(<<LBrace, RBrace>>),
      Stored(<<LBracket, StrTok("Rome"), Comma, RBracket>>),
      Stored(JSONstringify(<<>>)),
      Stored(JSONstringify(<<"Rome">>)),
      Stored(JSONstringify(FiveCities)),
      Stored(JSONstringify(SixCities)),
      Stored(JSONstringify(<<"Paris", "paris">>)) }

\* the persisted contents the model starts from: every value of one key
\* with the other keys absent, and some combinations
PersistedContents ==
    { [units |-> u, theme |-> Absent, recentCities |-> AbsentList] :
        u \in PersistedUnits }
    \cup { [units |-> Absent, theme |-> t, recentCities |-> AbsentList] :
        t \in PersistedTheme }
    \cup { [units |-> Absent, theme |-> Absent, recentCities |-> r] :
        r \in PersistedRecent }
    \cup { [units |-> Stored("imperial"), theme |-> Stored("light"),
            recentCities |-> Stored(JSONstringify(FiveCities))] }

\* localStorage.getItem: threw = TRUE when the access throws
getItem(mode, store, key) ==
    IF mode = "disabled" THEN [threw |-> TRUE, present |-> FALSE]
    ELSE [threw |-> FALSE, present |-> store[key].present]

\* localStorage.setItem inside try/catch: the store after the attempt
setItem(mode, store, key, v) ==
    IF mode = "ok" THEN [store EXCEPT ![key] = Stored(v)] ELSE store

\* the record of setItem calls after setItem(key, v) was called
called(calls, key, v) == [calls EXCEPT ![key] = Stored(v)]

\* localStorage.removeItem('recentCities') inside try/catch
removeItem(mode, store) ==
    IF mode = "disabled" THEN store
    ELSE [store EXCEPT !.recentCities = AbsentList]

\* a JavaScript string is truthy when it is not empty
Truthy(e) == e.present /\ e.val # ""
TruthyText(e) == e.present /\ e.val # <<>>

(***************************************************************************)
(* State initializers of WeatherProvider                                   *)
(***************************************************************************)
\* the initializer without validation: localStorage.getItem('units') || 'metric'
InitialUnits_unvalidated(mode, store) ==
    IF mode # "disabled" /\ Truthy(store.units) THEN store.units.val ELSE "metric"

\* useState initializer of units
InitialUnits(mode, store) ==
    LET saved == getItem(mode, store, "units")
    IN  IF ~saved.threw /\ Truthy(store.units)
           /\ (store.units.val = "metric" \/ store.units.val = "imperial")
        THEN store.units.val
        ELSE "metric"

\* useState initializer of theme
InitialTheme(mode, store) ==
    LET saved == getItem(mode, store, "theme")
    IN  IF ~saved.threw /\ Truthy(store.theme)
           /\ (store.theme.val = "dark" \/ store.theme.val = "light")
        THEN store.theme.val
        ELSE "dark"

\* the initializer without try/catch and Array.isArray:
\* JSON.parse(localStorage.getItem('recentCities') || '[]')
ReadRecentCities_unguarded(mode, store) ==
    LET saved == getItem(mode, store, "recentCities")
    IN  IF saved.threw THEN [list |-> <<>>, caught |-> FALSE, threw |-> TRUE]
        ELSE IF ~TruthyText(store.recentCities)
             THEN [list |-> <<>>, caught |-> FALSE, threw |-> FALSE]
        ELSE LET parsed == JSONparse(store.recentCities.val)
             IN  [list |-> parsed.items, caught |-> FALSE, threw |-> ~parsed.ok]

\* useState initializer of recentCities: the list, whether the catch block
\* (which removes the stored entry) ran, and whether an exception left the
\* initializer
ReadRecentCities(mode, store) ==
    LET saved == getItem(mode, store, "recentCities")
    IN  IF saved.threw THEN [list |-> <<>>, caught |-> TRUE, threw |-> FALSE]
        ELSE IF ~TruthyText(store.recentCities)
             THEN [list |-> <<>>, caught |-> FALSE, threw |-> FALSE]
        ELSE LET parsed == JSONparse(store.recentCities.val)
             IN  IF ~parsed.ok
                 THEN [list |-> <<>>, caught |-> TRUE, threw |-> FALSE]
                 ELSE IF parsed.isArray
                      THEN [list |-> parsed.items, caught |-> FALSE, threw |-> FALSE]
                 ELSE [list |-> <<>>, caught |-> FALSE, threw |-> FALSE]

InitialRecentCities(mode, store) == ReadRecentCities(mode, store).list

\* storage once the three initializers have run
StorageAfterInit(mode, store) ==
    IF ReadRecentCities(mode, store).caught
    THEN removeItem(mode, store)
    ELSE store

(***************************************************************************)
(* Failures of a fetch, as seen by the catch blocks of the store:          *)
(* status (0: none), response present, Error.message, and the message      *)
(* field of the response body ("" when there is none).                     *)
(***************************************************************************)
Failure(st, resp, msg, body) ==
    [status |-> st, response |-> resp, message |-> msg, body |-> body]

E401 == Failure(401, TRUE, "Request failed with status code 401", "Invalid API key")
E404 == Failure(404, TRUE, "Request failed with status code 404", "city not found")
E429 == Failure(429, TRUE, "Request failed with status code 429", "")
E500 == Failure(500, TRUE, "Request failed with status code 500", "")
E400 == Failure(400, TRUE, "Request failed with status code 400", "Nothing to geocode")
ENetwork == Failure(0, FALSE, "Network Error", "")
ETimeout == Failure(0, FALSE, "timeout of 10000ms exceeded", "")

API_KEY_ERROR == "API key is not configured. Please check your environment variables."
ECredential == Failure(0, FALSE, API_KEY_ERROR, "")
NoFailure == Failure(0, FALSE, "", "")

\* failures a request that was sent ends with in the store's state machine:
\* one with an HTTP status and one without a response
NetworkFailures == {E404, ENetwork}

\* failures without a response: the request got no answer (offline, DNS,
\* CORS: axios reports 'Network Error'), or the 10 s timeout of the client
\* expired (axios reports 'timeout of 10000ms exceeded')
TransportFailures == {ENetwork, ETimeout}

\* message fields an upstream error body carries ("": none)
BodyMessages == {"", "city not found", "Nothing to geocode"}

\* every failure a fetch can be rejected with: each status with each body
\* message, and the failures without a response
AllFailures ==
    { Failure(e.status, TRUE, e.message, b) :
        e \in {E400, E401, E404, E429, E500}, b \in BodyMessages }
    \cup TransportFailures
    \cup { Failure(0, FALSE, "Request aborted", "") }

NoError == "<null>"
MsgAuth == "API authentication failed. Please check your configuration."
MsgRate == "Too many requests. Please wait a moment and try again."
MsgCityNotFound == "City not found. Please check the spelling and try again."
MsgLocationNotFound == "Unable to find weather for your location."
MsgNetwork == "Network error. Please check your connection and try again."
MsgCityGeneric == "City not found. Please try again."
MsgLocationGeneric == "Could not fetch weather for your location."

\* the catch block without the status checks:
\* err.response?.data?.message || 'City not found. Please try again.'
loadWeatherMessage_bodyOnly(e) ==
    IF e.body # "" THEN e.body ELSE MsgCityGeneric

\* the catch block showing the message of the error when it has one:
\* error.message || 'City not found. Please try again.'
loadWeatherMessage_errorMessage(e) ==
    IF e.message # "" THEN e.message ELSE MsgCityGeneric

\* error message selection in the catch block of loadWeather
loadWeatherMessage(e) ==
    IF e.status = 401 THEN MsgAuth
    ELSE IF e.status = 429 THEN MsgRate
    ELSE IF e.status = 404 THEN MsgCityNotFound
    ELSE IF ~e.response /\ e.message = "Network Error" THEN MsgNetwork
    ELSE IF e.body # "" THEN e.body
    ELSE MsgCityGeneric

\* the selection of loadWeatherByCoords ending like that of loadWeather
loadWeatherByCoordsMessage_bodyMessage(e) ==
    IF e.status = 401 THEN MsgAuth
    ELSE IF e.status = 429 THEN MsgRate
    ELSE IF e.status = 404 THEN MsgLocationNotFound
    ELSE IF ~e.response /\ e.message = "Network Error" THEN MsgNetwork
    ELSE IF e.body # "" THEN e.body
    ELSE MsgLocationGeneric

\* error message selection in the catch block of loadWeatherByCoords
loadWeatherByCoordsMessage(e) ==
    IF e.status = 401 THEN MsgAuth
    ELSE IF e.status = 429 THEN MsgRate
    ELSE IF e.status = 404 THEN MsgLocationNotFound
    ELSE IF ~e.response /\ e.message = "Network Error" THEN MsgNetwork
    ELSE MsgLocationGeneric

(***************************************************************************)
(* State                                                                   *)
(***************************************************************************)
VARIABLES
    apiKey,       \* VITE_WEATHER_API_KEY: absent, or the string configured
    storageMode,  \* behaviour of localStorage, see StorageModes
    persisted,    \* localStorage contents found when the store was constructed
    geolocation,  \* navigator.geolocation exists
    storage,      \* localStorage contents
    setItemCalls, \* per key, the value of the last localStorage.setItem call
    mounted,      \* the mount effect of WeatherProvider has run
    city, units, theme, current, forecast, loading, error, recentCities,
    ops,          \* the load operations started so far, by number
    geo,          \* pending geolocation lookups: the units each one captured
    \* state of SearchBar
    query,        \* the text of the search field
    suggestions,  \* the suggestions of the last city lookup
    showDropdown, \* the suggestion list is open
    timers,       \* pending timeouts of SearchBar: the input each will look up
    debounce,     \* debounceRef.current: the pending timeout it refers to, as
                  \* its position in timers (NoTimer: it refers to none)
    unmounted,    \* SearchBar has been torn down
    searches,     \* searchCities requests in flight: their queries
    locating,     \* a geolocation request is being served
    uncaught      \* an exception was thrown that no handler caught

vars == <<apiKey, storageMode, persisted, geolocation, storage, setItemCalls,
          mounted, city, units, theme, current, forecast, loading, error,
          recentCities, ops, geo, query, suggestions, showDropdown, timers, debounce,
          unmounted, searches, locating, uncaught>>

Units == {"metric", "imperial"}
Themes == {"dark", "light"}

\* the list member of a forecast response: missing, present but not an
\* array, or an array of entries
ListAbsent == [present |-> FALSE, isArray |-> FALSE, items |-> <<>>]
ListNotArray == [present |-> TRUE, isArray |-> FALSE, items |-> <<>>]
ListOf(items) == [present |-> TRUE, isArray |-> TRUE, items |-> items]

\* a forecast entry; dt_txt is 'date time', kept as the pair of its parts
Slot(date, time) == [dt_txt |-> <<date, time>>]

\* a forecast as the upstream API sends it: entries of consecutive days
FullForecast ==
    ListOf(<<Slot("2026-03-01", "21:00:00"), Slot("2026-03-02", "09:00:00"),
             Slot("2026-03-02", "12:00:00"), Slot("2026-03-03", "12:00:00")>>)

\* the list members of the forecast responses of the model
ForecastLists ==
    {ListAbsent, ListNotArray, ListOf(<<>>),
     ListOf(<<Slot("2026-03-01", "21:00:00")>>), FullForecast}

\* the dates and times of day of the entries of a forecast response
Days == <<"2026-03-01", "2026-03-02", "2026-03-03", "2026-03-04", "2026-03-05",
          "2026-03-06", "2026-03-07", "2026-03-08">>
Times == <<"03:00:00", "12:00:00", "21:00:00">>

\* the entries of a response in chronological order, from day d on, with
\* counts[k] entries on day k
RECURSIVE Chronological(_, _)
Chronological(counts, d) ==
    IF d > MaxDays THEN <<>>
    ELSE [k \in 1..counts[d] |-> Slot(Days[d], Times[k])]
         \o Chronological(counts, d + 1)

\* the chronologically ordered lists of the model: every number of entries
\* on every day
ChronologicalLists ==
    { Chronological(counts, 1) : counts \in [1..MaxDays -> 0..MaxPerDay] }

\* current / forecast before the first successful load (null)
NoCurrent == [op |-> 0, q |-> "", units |-> "", name |-> ""]
NoForecast == [op |-> 0, q |-> "", units |-> "", list |-> ListAbsent]

\* the coordinates the geolocation lookup reports
Here == "@here"

\* values of VITE_WEATHER_API_KEY: not defined, defined empty, defined
NoKey == Absent
EmptyKey == Stored("")
Key == Stored("0a1b2c3d")
ApiKeys == {NoKey, EmptyKey, Key}

\* debounceRef.current when the timeout it holds is not pending (null, or
\* the id of a timeout that has fired or was cleared)
NoTimer == 0

EmptyContents == [units |-> Absent, theme |-> Absent, recentCities |-> AbsentList]

\* a first visit, and a returning user with a full recent-city list
FirstVisit == EmptyContents
ReturningUser == [units |-> Stored("imperial"), theme |-> Stored("light"),
                  recentCities |-> Stored(JSONstringify(FiveCities))]

\* configuration, storage behaviour and persisted contents at construction
Environment(key, mode, contents) ==
    [apiKey |-> key, storageMode |-> mode, persisted |-> contents,
     geolocation |-> TRUE]

\* the same environment in a browser without navigator.geolocation
Unsupported(env) == [env EXCEPT !.geolocation = FALSE]

MainEnvironments ==
    { Environment(Key, "ok", FirstVisit),
      Environment(Key, "ok", ReturningUser),
      Environment(Key, "disabled", FirstVisit),
      Environment(NoKey, "ok", FirstVisit) }

AllEnvironments ==
    { Environment(Key, m, p) : m \in {"ok", "full"}, p \in PersistedContents }
    \cup { Environment(k, m, FirstVisit) : k \in ApiKeys, m \in StorageModes }
    \cup { Environment(Key, "disabled", ReturningUser) }

\* the store after construction (the useState initializers have run) in
\* one of the given environments
Constructed(environments) ==
    /\ \E env \in environments :
          /\ apiKey = env.apiKey
          /\ storageMode = env.storageMode
          /\ persisted = env.persisted
          /\ geolocation = env.geolocation
          /\ units = InitialUnits(env.storageMode, env.persisted)
          /\ theme = InitialTheme(env.storageMode, env.persisted)
          /\ recentCities = InitialRecentCities(env.storageMode, env.persisted)
          /\ storage = StorageAfterInit(env.storageMode, env.persisted)
          /\ uncaught = ReadRecentCities(env.storageMode, env.persisted).threw
    /\ setItemCalls = EmptyContents
    /\ mounted = FALSE
    /\ city = DefaultCity
    /\ current = NoCurrent
    /\ forecast = NoForecast
    /\ loading = FALSE
    /\ error = NoError
    /\ ops = <<>>
    /\ geo = <<>>
    /\ query = ""
    /\ suggestions = <<>>
    /\ showDropdown = FALSE
    /\ timers = <<>>
    /\ debounce = NoTimer
    /\ unmounted = FALSE
    /\ searches = <<>>
    /\ locating = FALSE

Init == Constructed(MainEnvironments)

(***************************************************************************)
(* API client                                                              *)
(***************************************************************************)
\* the revision of the client without the check
ensureApiKey_notChecked == FALSE

\* ensureApiKey: TRUE when it throws
ensureApiKey == ~Truthy(apiKey)

\* outcome of a call of the client: rejected before any request with the
\* given error, or the request that api.get sent
Rejected(message) ==
    [sent |-> FALSE, path |-> "", q |-> "", units |-> "", appid |-> "",
     error |-> message]
apiGet(path, q, u) ==
    [sent |-> TRUE, path |-> path, q |-> q, units |-> u, appid |-> apiKey.val,
     error |-> ""]

fetchCurrentWeather(cityName, u) ==
    IF ensureApiKey THEN Rejected(API_KEY_ERROR)
    ELSE apiGet("/data/2.5/weather", cityName, u)

fetchCurrentWeatherByCoords(coords, u) ==
    IF ensureApiKey THEN Rejected(API_KEY_ERROR)
    ELSE apiGet("/data/2.5/weather", coords, u)

fetchForecast(cityName, u) ==
    IF ensureApiKey THEN Rejected(API_KEY_ERROR)
    ELSE apiGet("/data/2.5/forecast", cityName, u)

fetchForecastByCoords(coords, u) ==
    IF ensureApiKey THEN Rejected(API_KEY_ERROR)
    ELSE apiGet("/data/2.5/forecast", coords, u)

searchCities(q) ==
    IF ensureApiKey THEN Rejected(API_KEY_ERROR)
    ELSE apiGet("/geo/1.0/direct", q, "")

\* state of a fetch right after the given call
Sent(call) == IF call.sent THEN "pending" ELSE "unsent"

\* state of a fetch right after the call: the request is in flight, or the
\* call was rejected by ensureApiKey before any request was sent
fetchCall == IF ensureApiKey THEN "unsent" ELSE "pending"

(***************************************************************************)
(* Load operations                                                         *)
(***************************************************************************)
\* an operation whose fetches were called with the given arguments
Operation(kind, q, cu, fu) ==
    LET cur == IF kind = "name" THEN fetchCurrentWeather(q, cu)
                                ELSE fetchCurrentWeatherByCoords(q, cu)
        fore == IF kind = "name" THEN fetchForecast(q, fu)
                                 ELSE fetchForecastByCoords(q, fu)
    IN  [kind |-> kind, q |-> q, cu |-> cu, fu |-> fu,
         cur |-> Sent(cur), fore |-> Sent(fore), name |-> "",
         list |-> ListAbsent,
         result |-> IF cur.sent /\ fore.sent THEN "pending" ELSE "failed"]

\* what the call of a load operation does up to its await; when the
\* credential is missing both fetches are already rejected and the catch
\* and finally blocks run before any other handler
Begin(op, message) ==
    /\ Len(ops) < MaxStarted
    /\ ops' = Append(ops, op)
    /\ loading' = (op.result = "pending")
    /\ error' = IF op.result = "pending" THEN NoError ELSE message

\* loadWeather with the forecast fetched with the units of the render
\* instead of unitPref
loadWeather_forecastWithRenderUnits(cityName, unitPref) ==
    Begin(Operation("name", cityName, unitPref, units),
          loadWeatherMessage(ECredential))

\* loadWeather(cityName, unitPref), up to the await
loadWeather(cityName, unitPref) ==
    Begin(Operation("name", cityName, unitPref, unitPref),
          loadWeatherMessage(ECredential))

\* loadWeatherByCoords(lat, lon) of a render in which units was u
loadWeatherByCoords(coords, u) ==
    Begin(Operation("coords", coords, u, u),
          loadWeatherByCoordsMessage(ECredential))

\* length the recent-city list is cut to
MaxRecentCities == 5

\* Array.prototype.slice(0, n)
slice(seq, n) == SubSeq(seq, 1, IF Len(seq) < n THEN Len(seq) ELSE n)

\* the updater with a case-sensitive comparison
nextRecentCities_caseSensitive(cityName, prev) ==
    slice(<<cityName>> \o SelectSeq(prev, LAMBDA c : c # cityName),
          MaxRecentCities)

\* the updater passed to setRecentCities
nextRecentCities(cityName, prev) ==
    slice(<<cityName>> \o
          SelectSeq(prev, LAMBDA c : toLowerCase(c) # toLowerCase(cityName)),
          MaxRecentCities)

\* the continuation with a request-generation guard: the result of a call
\* older than the one displayed is dropped
loadWeatherSucceeded_latestIssuedWins(i, o) ==
    IF i < current.op
    THEN /\ loading' = FALSE
         /\ UNCHANGED <<current, forecast, city, recentCities, storage,
                        setItemCalls, error>>
    ELSE /\ current' = [op |-> i, q |-> o.q, units |-> o.cu, name |-> o.name]
         /\ forecast' = [op |-> i, q |-> o.q, units |-> o.fu, list |-> o.list]
         /\ city' = o.q
         /\ recentCities' = nextRecentCities(o.q, recentCities)
         /\ storage' = setItem(storageMode, storage, "recentCities",
                               JSONstringify(nextRecentCities(o.q, recentCities)))
         /\ setItemCalls' = called(setItemCalls, "recentCities",
                                   JSONstringify(nextRecentCities(o.q, recentCities)))
         /\ loading' = FALSE
         /\ UNCHANGED error

\* the continuation with setItem outside any try/catch: when it throws,
\* the exception leaves the updater and the new list is not applied
loadWeatherSucceeded_unguardedWrite(i, o) ==
    /\ current' = [op |-> i, q |-> o.q, units |-> o.cu, name |-> o.name]
    /\ forecast' = [op |-> i, q |-> o.q, units |-> o.fu, list |-> o.list]
    /\ city' = o.q
    /\ recentCities' = (IF storageMode = "ok"
                        THEN nextRecentCities(o.q, recentCities)
                        ELSE recentCities)
    /\ storage' = setItem(storageMode, storage, "recentCities",
                          JSONstringify(nextRecentCities(o.q, recentCities)))
    /\ setItemCalls' = called(setItemCalls, "recentCities",
                              JSONstringify(nextRecentCities(o.q, recentCities)))
    /\ loading' = FALSE
    /\ UNCHANGED error

\* continuation of loadWeather after both fetches succeeded (operation i)
loadWeatherSucceeded(i, o) ==
    /\ current' = [op |-> i, q |-> o.q, units |-> o.cu, name |-> o.name]
    /\ forecast' = [op |-> i, q |-> o.q, units |-> o.fu, list |-> o.list]
    /\ city' = o.q
    /\ recentCities' = nextRecentCities(o.q, recentCities)
    /\ storage' = setItem(storageMode, storage, "recentCities",
                          JSONstringify(nextRecentCities(o.q, recentCities)))
    /\ setItemCalls' = called(setItemCalls, "recentCities",
                              JSONstringify(nextRecentCities(o.q, recentCities)))
    /\ loading' = FALSE
    /\ UNCHANGED error

\* catch and finally blocks of loadWeather
loadWeatherFailed(e) ==
    /\ error' = loadWeatherMessage(e)
    /\ loading' = FALSE
    /\ UNCHANGED <<current, forecast, city, recentCities, storage,
                   setItemCalls>>

\* the continuation recording the reported name like loadWeather records
\* its city
loadWeatherByCoordsSucceeded_recordsCity(i, o) ==
    /\ current' = [op |-> i, q |-> o.q, units |-> o.cu, name |-> o.name]
    /\ forecast' = [op |-> i, q |-> o.q, units |-> o.fu, list |-> o.list]
    /\ city' = o.name
    /\ recentCities' = nextRecentCities(o.name, recentCities)
    /\ storage' = setItem(storageMode, storage, "recentCities",
                          JSONstringify(nextRecentCities(o.name, recentCities)))
    /\ setItemCalls' = called(setItemCalls, "recentCities",
                              JSONstringify(nextRecentCities(o.name, recentCities)))
    /\ loading' = FALSE
    /\ UNCHANGED error

\* continuation of loadWeatherByCoords after both fetches succeeded
loadWeatherByCoordsSucceeded(i, o) ==
    /\ current' = [op |-> i, q |-> o.q, units |-> o.cu, name |-> o.name]
    /\ forecast' = [op |-> i, q |-> o.q, units |-> o.fu, list |-> o.list]
    /\ city' = o.name
    /\ loading' = FALSE
    /\ UNCHANGED <<error, recentCities, storage, setItemCalls>>

\* the catch block without the finally block
loadWeatherByCoordsFailed_noFinally(e) ==
    /\ error' = loadWeatherByCoordsMessage(e)
    /\ UNCHANGED <<loading, current, forecast, city, recentCities, storage,
                   setItemCalls>>

\* catch and finally blocks of loadWeatherByCoords
loadWeatherByCoordsFailed(e) ==
    /\ error' = loadWeatherByCoordsMessage(e)
    /\ loading' = FALSE
    /\ UNCHANGED <<current, forecast, city, recentCities, storage,
                   setItemCalls>>

\* an operation that has completed: its arguments are no longer used, only
\* the requests still in flight are
Completed(o, result) ==
    [kind |-> "", q |-> "", cu |-> "", fu |-> "",
     cur |-> IF o.cur = "pending" THEN "pending" ELSE "settled",
     fore |-> IF o.fore = "pending" THEN "pending" ELSE "settled",
     name |-> "", list |-> ListAbsent, result |-> result]

\* Promise.all over the two fetches of operation i, when one of them
\* settles: it rejects with the first failure and resolves once both
\* succeeded; a fetch that settles after the rejection has no effect
PromiseAll(i, o, failed, e) ==
    IF ops[i].result # "pending" THEN
        /\ ops' = [ops EXCEPT ![i] = Completed(o, ops[i].result)]
        /\ UNCHANGED <<current, forecast, city, recentCities, storage,
                       setItemCalls, loading, error, locating>>
    ELSE IF failed THEN
        /\ ops' = [ops EXCEPT ![i] = Completed(o, "failed")]
        /\ IF o.kind = "name"
           THEN loadWeatherFailed(e) /\ UNCHANGED locating
           ELSE loadWeatherByCoordsFailed(e) /\ locating' = FALSE
    ELSE IF o.cur = "ok" /\ o.fore = "ok" THEN
        /\ ops' = [ops EXCEPT ![i] = Completed(o, "ok")]
        /\ IF o.kind = "name"
           THEN loadWeatherSucceeded(i, o) /\ UNCHANGED locating
           ELSE loadWeatherByCoordsSucceeded(i, o) /\ locating' = FALSE
    ELSE
        /\ ops' = [ops EXCEPT ![i] = o]
        /\ UNCHANGED <<current, forecast, city, recentCities, storage,
                       setItemCalls, loading, error, locating>>

\* what is fixed when the page is loaded
Env == <<apiKey, storageMode, persisted, geolocation>>

\* the suggestion lookup of SearchBar
Lookup == <<query, suggestions, showDropdown, timers, debounce, unmounted,
            searches>>

(***************************************************************************)
(* Derivations of the forecast components.  A component renders nothing    *)
(* (returns null), renders the given entries, or throws.                   *)
(***************************************************************************)
Nothing == [kind |-> "null", entries |-> <<>>]
Throws == [kind |-> "throws", entries |-> <<>>]
Rendered(entries) == [kind |-> "rendered", entries |-> entries]

\* item.dt_txt.split(' ')[0]
dateOf(item) == item.dt_txt[1]

\* the keys of the days object of groupByDay, in insertion order
RECURSIVE Dates(_)
Dates(list) ==
    IF list = <<>> THEN <<>>
    ELSE <<dateOf(Head(list))>>
         \o SelectSeq(Dates(Tail(list)), LAMBDA d : d # dateOf(Head(list)))

\* Array.prototype.slice(from, to)
sliceFrom(seq, from, to) ==
    SubSeq(seq, from + 1, IF Len(seq) < to THEN Len(seq) ELSE to)

\* groupByDay keeping the first date: Object.entries(days).slice(0, 5)
groupByDay_withFirstDay(list) ==
    LET dates == Dates(list)
        days == [k \in 1..Len(dates) |->
                   <<dates[k], SelectSeq(list, LAMBDA it : dateOf(it) = dates[k])>>]
    IN  sliceFrom(days, 0, 5)

\* groupByDay: the entries of each date, without the first date, up to 5
groupByDay(list) ==
    LET dates == Dates(list)
        days == [k \in 1..Len(dates) |->
                   <<dates[k], SelectSeq(list, LAMBDA it : dateOf(it) = dates[k])>>]
    IN  sliceFrom(days, 1, 6)

\* ForecastSection without the validation of forecast.list
ForecastSection_unvalidated(fc) ==
    IF fc.op = 0 THEN Nothing
    ELSE IF ~fc.list.isArray THEN Throws
    ELSE Rendered(groupByDay(fc.list.items))

\* ForecastSection: the days it renders
ForecastSection(fc) ==
    IF fc.op = 0 THEN Nothing
    ELSE IF ~fc.list.present \/ ~fc.list.isArray \/ Len(fc.list.items) = 0
         THEN Nothing
    ELSE Rendered(groupByDay(fc.list.items))

\* HourlyForecast: the entries it renders
HourlyForecast(fc, cur) ==
    IF fc.op = 0 \/ cur.op = 0 THEN Nothing
    ELSE IF ~fc.list.present \/ ~fc.list.isArray \/ Len(fc.list.items) = 0
         THEN Nothing
    ELSE Rendered(sliceFrom(fc.list.items, 0, 9))

(***************************************************************************)
(* Actions                                                                 *)
(***************************************************************************)
\* the effect without its empty dependency list: it runs after every render
Mount_everyRender ==
    /\ mounted' = TRUE
    /\ loadWeather(city, units)
    /\ UNCHANGED <<Env, storage, setItemCalls, city, units, theme, current, forecast,
                   recentCities, geo, Lookup, locating, uncaught>>

\* the mount effect (empty dependency list: it runs once): loadWeather(city)
Mount ==
    /\ ~mounted
    /\ mounted' = TRUE
    /\ loadWeather(city, units)
    /\ UNCHANGED <<Env, storage, setItemCalls, city, units, theme, current, forecast,
                   recentCities, geo, Lookup, locating, uncaught>>

\* SearchBar.handleSelect / handleSubmit: loadWeather(cityName)
Search(cityName) ==
    /\ mounted
    /\ ~unmounted
    /\ query' = cityName
    /\ showDropdown' = FALSE
    /\ suggestions' = <<>>
    /\ loadWeather(cityName, units)
    /\ UNCHANGED <<Env, storage, setItemCalls, mounted, city, units, theme, current,
                   forecast, recentCities, geo, timers, debounce, unmounted,
                   searches, locating, uncaught>>

\* a recent-city chip of Home: shown for recentCities.slice(1) while not
\* loading
RecentChip(k) ==
    /\ mounted
    /\ ~loading
    /\ Len(recentCities) > 1
    /\ k \in 2..Len(recentCities)
    /\ loadWeather(recentCities[k], units)
    /\ UNCHANGED <<Env, storage, setItemCalls, mounted, city, units, theme, current,
                   forecast, recentCities, geo, Lookup, locating, uncaught>>

\* toggleUnits refetching without the override: loadWeather(city)
toggleUnits_refetchWithOldUnits ==
    /\ mounted
    /\ LET next == IF units = "metric" THEN "imperial" ELSE "metric"
       IN  /\ units' = next
           /\ storage' = setItem(storageMode, storage, "units", next)
           /\ setItemCalls' = called(setItemCalls, "units", next)
           /\ IF city # ""
              THEN loadWeather(city, units)
              ELSE UNCHANGED <<ops, loading, error>>
    /\ UNCHANGED <<Env, mounted, city, theme, current, forecast,
                   recentCities, geo, Lookup, locating, uncaught>>

\* toggleUnits
toggleUnits ==
    /\ mounted
    /\ LET next == IF units = "metric" THEN "imperial" ELSE "metric"
       IN  /\ units' = next
           /\ storage' = setItem(storageMode, storage, "units", next)
           /\ setItemCalls' = called(setItemCalls, "units", next)
           /\ IF city # ""
              THEN loadWeather(city, next)
              ELSE UNCHANGED <<ops, loading, error>>
    /\ UNCHANGED <<Env, mounted, city, theme, current, forecast,
                   recentCities, geo, Lookup, locating, uncaught>>

\* the value the updater of toggleTheme computes from the previous theme
nextTheme_alwaysLight(prev) == "light"

nextTheme(prev) == IF prev = "dark" THEN "light" ELSE "dark"

\* toggleTheme reloading the city, like toggleUnits does
toggleTheme_refetches ==
    /\ mounted
    /\ LET next == nextTheme(theme)
       IN  /\ theme' = next
           /\ storage' = setItem(storageMode, storage, "theme", next)
           /\ setItemCalls' = called(setItemCalls, "theme", next)
    /\ loadWeather(city, units)
    /\ UNCHANGED <<Env, mounted, city, units, current, forecast,
                   recentCities, geo, Lookup, locating, uncaught>>

\* toggleTheme
toggleTheme ==
    /\ mounted
    /\ LET next == nextTheme(theme)
       IN  /\ theme' = next
           /\ storage' = setItem(storageMode, storage, "theme", next)
           /\ setItemCalls' = called(setItemCalls, "theme", next)
    /\ UNCHANGED <<Env, mounted, city, units, current, forecast, loading,
                   error, recentCities, ops, geo, Lookup, locating, uncaught>>

\* the value of WeatherContext.Provider has a setError member
ProvidesSetError == FALSE

MsgGeoUnsupported == "Geolocation is not supported by your browser."
MsgGeoDenied == "Location access denied. Please enable location permissions."
MsgGeoUnavailable == "Location information unavailable."
MsgGeoTimeout == "Location request timed out. Please try again."
MsgGeoUnknown == "An unknown error occurred getting your location."

\* codes of GeolocationPositionError
PERMISSION_DENIED == 1
POSITION_UNAVAILABLE == 2
TIMEOUT == 3
PositionErrorCodes == {PERMISSION_DENIED, POSITION_UNAVAILABLE, TIMEOUT}

\* geolocationErrors[error.code] || 'An unknown error ...'
geolocationErrors(code) ==
    CASE code = PERMISSION_DENIED    -> MsgGeoDenied
      [] code = POSITION_UNAVAILABLE -> MsgGeoUnavailable
      [] code = TIMEOUT              -> MsgGeoTimeout
      [] OTHER                       -> MsgGeoUnknown

\* setError(message) as SearchBar calls it: setError is what the context
\* value provides; calling a missing member throws a TypeError, which
\* nothing catches
setError(message) ==
    IF ProvidesSetError
    THEN error' = message /\ UNCHANGED uncaught
    ELSE uncaught' = TRUE /\ UNCHANGED error

\* SearchBar.handleGeolocate.  With the capability, the lookup is started:
\* its success callback keeps the loadWeatherByCoords of the render in
\* which the button was clicked
handleGeolocate ==
    /\ mounted
    /\ ~unmounted
    /\ IF ~geolocation
       THEN /\ setError(MsgGeoUnsupported)
            /\ UNCHANGED <<geo, locating>>
       ELSE /\ Len(geo) < MaxGeo
            /\ geo' = Append(geo, units)
            /\ locating' = TRUE
            /\ UNCHANGED <<error, uncaught>>
    /\ UNCHANGED <<Env, storage, setItemCalls, mounted, city, units, theme, current,
                   forecast, loading, recentCities, ops, Lookup>>

RemoveAt(seq, k) == SubSeq(seq, 1, k - 1) \o SubSeq(seq, k + 1, Len(seq))

\* success callback of getCurrentPosition: it awaits loadWeatherByCoords
\* and then resets locating; a load rejected for the missing credential
\* is over before any other handler runs
GeolocateSuccess(k) ==
    /\ k \in 1..Len(geo)
    /\ loadWeatherByCoords(Here, geo[k])
    /\ geo' = RemoveAt(geo, k)
    /\ locating' = (IF ensureApiKey THEN FALSE ELSE locating)
    /\ UNCHANGED <<Env, storage, setItemCalls, mounted, city, units, theme, current,
                   forecast, recentCities, Lookup, uncaught>>

\* error callback of getCurrentPosition
GeolocateError(k, code) ==
    /\ k \in 1..Len(geo)
    /\ geo' = RemoveAt(geo, k)
    /\ locating' = FALSE
    /\ setError(geolocationErrors(code))
    /\ UNCHANGED <<Env, storage, setItemCalls, mounted, city, units, theme, current,
                   forecast, loading, recentCities, ops, Lookup>>

\* inputs typed into the search field
SearchInputs == {"P", " P", "Pa", "Par"}

\* val.trim().length
trimLength(val) ==
    CASE val = ""      -> 0
      [] val = "P"     -> 1
      [] val = " P"    -> 1
      [] val = "Pa"    -> 2
      [] val = "Par"   -> 3
      [] val = "Paris" -> 5
      [] val = "paris" -> 5

\* lists of places the geocoding endpoint answers with
Suggestions == {<<>>, <<"Paris">>}

\* clearTimeout(debounceRef.current): the timeout the ref refers to is
\* removed; nothing happens when it refers to none that is pending
clearTimeout(pending, ref) ==
    IF ref = NoTimer THEN pending ELSE RemoveAt(pending, ref)

\* SearchBar.handleInput: clears the timeout of the previous keystroke and,
\* for an input of 2 characters or more, sets a new one
handleInput(val) ==
    /\ mounted
    /\ ~unmounted
    /\ query' = val
    /\ LET cleared == clearTimeout(timers, debounce)
       IN  IF trimLength(val) < 2
           THEN /\ timers' = cleared
                /\ debounce' = NoTimer
                /\ suggestions' = <<>>
                /\ showDropdown' = FALSE
           ELSE /\ Len(cleared) < MaxTimers
                /\ timers' = Append(cleared, val)
                /\ debounce' = Len(cleared) + 1
                /\ UNCHANGED <<suggestions, showDropdown>>
    /\ UNCHANGED <<Env, storage, setItemCalls, mounted, city, units, theme, current,
                   forecast, loading, error, recentCities, ops, geo, unmounted,
                   searches, locating, uncaught>>

\* the ref after the pending timeout at position k is gone
refAfter(ref, k) ==
    IF ref = k THEN NoTimer ELSE IF ref > k THEN ref - 1 ELSE ref

\* the pending timeout at position k fires after its 350 ms:
\* searchCities(val), up to the await; a rejected call is caught at once
DebounceFires(k) ==
    /\ k \in 1..Len(timers)
    /\ timers' = RemoveAt(timers, k)
    /\ debounce' = refAfter(debounce, k)
    /\ IF searchCities(timers[k]).sent
       THEN /\ Len(searches) < MaxSearches
            /\ searches' = Append(searches, timers[k])
            /\ UNCHANGED suggestions
       ELSE /\ suggestions' = <<>>
            /\ UNCHANGED searches
    /\ UNCHANGED <<Env, storage, setItemCalls, mounted, city, units, theme, current,
                   forecast, loading, error, recentCities, ops, geo, query,
                   showDropdown, unmounted, locating, uncaught>>

\* the teardown of the earlier revision, which has no cleanup effect
Teardown_noCleanup ==
    /\ mounted
    /\ ~unmounted
    /\ unmounted' = TRUE
    /\ UNCHANGED <<Env, storage, setItemCalls, mounted, city, units, theme, current,
                   forecast, loading, error, recentCities, ops, geo, query,
                   suggestions, showDropdown, timers, debounce, searches, locating,
                   uncaught>>

\* SearchBar is unmounted: its cleanup effect clears the pending timeout
Teardown ==
    /\ mounted
    /\ ~unmounted
    /\ unmounted' = TRUE
    /\ timers' = clearTimeout(timers, debounce)
    /\ debounce' = NoTimer
    /\ UNCHANGED <<Env, storage, setItemCalls, mounted, city, units, theme, current,
                   forecast, loading, error, recentCities, ops, geo, query,
                   suggestions, showDropdown, searches, locating, uncaught>>

\* the dropdown is rendered: showDropdown && suggestions.length > 0
dropdownShown == showDropdown /\ suggestions # <<>>

\* a searchCities request is answered
SearchResponse(k, results) ==
    /\ k \in 1..Len(searches)
    /\ searches' = RemoveAt(searches, k)
    /\ suggestions' = results
    /\ showDropdown' = TRUE
    /\ UNCHANGED <<Env, storage, setItemCalls, mounted, city, units, theme, current,
                   forecast, loading, error, recentCities, ops, geo, query, timers,
                   debounce, unmounted, locating, uncaught>>

\* a searchCities request fails
SearchFailure(k) ==
    /\ k \in 1..Len(searches)
    /\ searches' = RemoveAt(searches, k)
    /\ suggestions' = <<>>
    /\ UNCHANGED <<Env, storage, setItemCalls, mounted, city, units, theme, current,
                   forecast, loading, error, recentCities, ops, geo, query, timers,
                   debounce, unmounted, showDropdown, locating, uncaught>>

\* the current-weather request of operation i is answered
CurrentResponse(i, name) ==
    /\ i \in 1..Len(ops)
    /\ ops[i].cur = "pending"
    /\ name \in (IF ops[i].kind = "name" THEN {ApiName(ops[i].q)} ELSE CoordNames)
    /\ PromiseAll(i, [ops[i] EXCEPT !.cur = "ok", !.name = name], FALSE, NoFailure)
    /\ UNCHANGED <<Env, mounted, units, theme, geo, Lookup, uncaught>>

\* the forecast request of operation i is answered, with the given list
ForecastResponse(i, list) ==
    /\ i \in 1..Len(ops)
    /\ ops[i].fore = "pending"
    /\ PromiseAll(i, [ops[i] EXCEPT !.fore = "ok", !.list = list], FALSE, NoFailure)
    /\ UNCHANGED <<Env, mounted, units, theme, geo, Lookup, uncaught>>

\* the current-weather request of operation i fails with e
CurrentFailure(i, e) ==
    /\ i \in 1..Len(ops)
    /\ ops[i].cur = "pending"
    /\ PromiseAll(i, [ops[i] EXCEPT !.cur = "failed"], TRUE, e)
    /\ UNCHANGED <<Env, mounted, units, theme, geo, Lookup, uncaught>>

\* the forecast request of operation i fails with e
ForecastFailure(i, e) ==
    /\ i \in 1..Len(ops)
    /\ ops[i].fore = "pending"
    /\ PromiseAll(i, [ops[i] EXCEPT !.fore = "failed"], TRUE, e)
    /\ UNCHANGED <<Env, mounted, units, theme, geo, Lookup, uncaught>>

Next ==
    \/ Mount
    \/ \E c \in CityInputs : Search(c)
    \/ \E k \in 2..Len(recentCities) : RecentChip(k)
    \/ toggleUnits
    \/ toggleTheme
    \/ handleGeolocate
    \/ \E k \in 1..MaxGeo : GeolocateSuccess(k)
    \/ \E i \in 1..MaxStarted, n \in CoordNames \cup {ApiName(c) : c \in CityInputs \cup {DefaultCity}} :
          CurrentResponse(i, n)
    \/ \E i \in 1..MaxStarted : ForecastResponse(i, FullForecast)
    \/ \E i \in 1..MaxStarted, e \in NetworkFailures : CurrentFailure(i, e)
    \/ \E i \in 1..MaxStarted, e \in NetworkFailures : ForecastFailure(i, e)

Spec == Init /\ [][Next]_vars

\* every persisted content and storage behaviour, with fewer operations
BootInit == Constructed(AllEnvironments)
BootNext == Next /\ Len(ops') <= BootStarted
BootSpec == BootInit /\ [][BootNext]_vars

(***************************************************************************)
(* Fairness: a request that was sent is answered or fails (the client     *)
(* gives up after its 10 s timeout), so every pending fetch settles.       *)
(***************************************************************************)
Settle(i) ==
    \/ \E n \in CoordNames \cup {ApiName(c) : c \in CityInputs \cup {DefaultCity}} :
          CurrentResponse(i, n)
    \/ ForecastResponse(i, FullForecast)
    \/ \E e \in NetworkFailures : CurrentFailure(i, e)
    \/ \E e \in NetworkFailures : ForecastFailure(i, e)

FairNext == Next /\ Len(ops') <= FairStarted
FairSpec ==
    Init /\ [][FairNext]_vars /\ \A i \in 1..FairStarted : WF_vars(Settle(i))

(***************************************************************************)
(* The store with every kind of failure of a request and of a geolocation  *)
(* lookup: searches and geolocation loads, no preference changes.          *)
(***************************************************************************)
ErrorInit ==
    Constructed({ Environment(Key, "ok", FirstVisit),
                  Environment(NoKey, "ok", FirstVisit),
                  Unsupported(Environment(Key, "ok", FirstVisit)) })

ErrorStep ==
    \/ Mount
    \/ \E c \in CityInputs : Search(c)
    \/ handleGeolocate
    \/ \E k \in 1..MaxGeo : GeolocateSuccess(k)
    \/ \E k \in 1..MaxGeo, code \in PositionErrorCodes : GeolocateError(k, code)
    \/ \E i \in 1..ErrorStarted, n \in CoordNames \cup {ApiName(c) : c \in CityInputs \cup {DefaultCity}} :
          CurrentResponse(i, n)
    \/ \E i \in 1..ErrorStarted, l \in ForecastLists : ForecastResponse(i, l)
    \/ \E i \in 1..ErrorStarted, e \in AllFailures : CurrentFailure(i, e)
    \/ \E i \in 1..ErrorStarted, e \in AllFailures : ForecastFailure(i, e)

ErrorNext == ErrorStep /\ Len(ops') <= ErrorStarted
ErrorSpec == ErrorInit /\ [][ErrorNext]_vars

(***************************************************************************)
(* The store and the suggestion lookup of the search bar, with the         *)
(* credential absent, empty or configured.                                 *)
(***************************************************************************)
ClientInit == Constructed({ Environment(k, "ok", FirstVisit) : k \in ApiKeys })

ClientStep ==
    \/ Mount
    \/ \E c \in CityInputs : Search(c)
    \/ \E val \in SearchInputs : handleInput(val)
    \/ \E k \in 1..MaxTimers : DebounceFires(k)
    \/ Teardown
    \/ \E k \in 1..MaxSearches, r \in Suggestions : SearchResponse(k, r)
    \/ \E k \in 1..MaxSearches : SearchFailure(k)
    \/ handleGeolocate
    \/ \E k \in 1..MaxGeo : GeolocateSuccess(k)
    \/ \E i \in 1..ClientStarted, n \in CoordNames \cup {ApiName(c) : c \in CityInputs \cup {DefaultCity}} :
          CurrentResponse(i, n)
    \/ \E i \in 1..ClientStarted : ForecastResponse(i, FullForecast)
    \/ \E i \in 1..ClientStarted, e \in NetworkFailures : CurrentFailure(i, e)
    \/ \E i \in 1..ClientStarted, e \in NetworkFailures : ForecastFailure(i, e)

ClientNext == ClientStep /\ Len(ops') <= ClientStarted

ClientSpec == ClientInit /\ [][ClientNext]_vars

(***************************************************************************)
(* The initial load answered with every chronologically ordered forecast   *)
(* list, for the derivations of the forecast components.                   *)
(***************************************************************************)
ForecastInit == Constructed({ Environment(Key, "ok", FirstVisit) })

ForecastNext ==
    \/ Mount
    \/ CurrentResponse(1, ApiName(DefaultCity))
    \/ /\ Len(ops) = 1
       /\ ops[1].fore = "pending"
       /\ \E l \in ChronologicalLists : ForecastResponse(1, ListOf(l))

ForecastSpec == ForecastInit /\ [][ForecastNext]_vars

(***************************************************************************)
(* Vocabulary of the properties                                            *)
(***************************************************************************)
Started == 1..Len(ops)
InFlight(i) == i \in Started /\ ops[i].result = "pending"
\* operation i completes in this step (its Promise.all settles)
Completes(i) == InFlight(i) /\ ops'[i].result # "pending"
CompletesOk(i) == InFlight(i) /\ ops'[i].result = "ok"
CompletesFailed(i) == InFlight(i) /\ ops'[i].result = "failed"
\* a load operation is started in this step
Starts == Len(ops') = Len(ops) + 1
\* ... and is in flight after the step (its fetches were sent)
StartsInFlight == Starts /\ ops'[Len(ops')].result = "pending"
CaseEqual(a, b) == toLowerCase(a) = toLowerCase(b)

(***************************************************************************)
(* C1: the current and the forecast snapshot always come from the same     *)
(* operation, hence the same city or coordinates and the same units: both  *)
(* are absent or both present, the operation they come from has succeeded, *)
(* the two fetches of every operation in flight carry the same units, and  *)
(* an operation that fails replaces neither snapshot.                      *)
(***************************************************************************)
C1_PairState ==
    /\ current.op = forecast.op
    /\ current.q = forecast.q
    /\ current.units = forecast.units
    /\ current.op # 0 => (current.op \in Started /\ ops[current.op].result = "ok")
    /\ \A i \in Started : InFlight(i) => ops[i].cu = ops[i].fu

C1_SnapshotPair ==
    /\ []C1_PairState
    /\ [][\A i \in Started :
            CompletesFailed(i) => (current' = current /\ forecast' = forecast)]_vars

\* a snapshot pair is shown and an operation started after it has failed
C1_Witness ==
    /\ current.op # 0
    /\ forecast.op = current.op
    /\ \E i \in Started : i > current.op /\ ops[i].result = "failed"

(***************************************************************************)
(* C2: when loadWeather(c) completes with both fetches successful, city    *)
(* becomes c itself (not the name in the response); recentCities becomes c *)
(* followed by the previous entries that are not case-insensitively equal  *)
(* to c, in their order, cut to 5 entries, so that c is its only           *)
(* c-equivalent entry and is at the head; and the text passed to setItem   *)
(* under 'recentCities' (and stored, when storage accepts the write) is    *)
(* the JSON text of that list.                                             *)
(***************************************************************************)
RECURSIVE Others(_, _)
\* the entries of prev that are not case-insensitively equal to c
Others(prev, c) ==
    IF prev = <<>> THEN <<>>
    ELSE (IF CaseEqual(Head(prev), c) THEN <<>> ELSE <<Head(prev)>>)
         \o Others(Tail(prev), c)

C2_Step(i) ==
    LET c == ops[i].q
        wanted == <<c>> \o Others(recentCities, c)
        new == recentCities'
    IN  (CompletesOk(i) /\ ops[i].kind = "name") =>
          /\ city' = c
          /\ Len(new) = (IF Len(wanted) < 5 THEN Len(wanted) ELSE 5)
          /\ \A k \in 1..Len(new) : new[k] = wanted[k]
          /\ Cardinality({k \in 1..Len(new) : CaseEqual(new[k], c)}) = 1
          /\ setItemCalls'.recentCities.present
          /\ JSONparse(setItemCalls'.recentCities.val).isArray
          /\ JSONparse(setItemCalls'.recentCities.val).items = new
          /\ storageMode = "ok" => storage'.recentCities = setItemCalls'.recentCities

C2_RecentCitiesUpdate == [][\A i \in Started : C2_Step(i)]_vars

\* "paris" was loaded by name on top of a full list: it heads the list of 5,
\* which is also what storage holds
C2_Witness ==
    /\ current.op # 0
    /\ current.q = "paris"
    /\ city = "paris"
    /\ current.name = "Paris"
    /\ Len(recentCities) = 5
    /\ recentCities[1] = "paris"
    /\ storage.recentCities = Stored(JSONstringify(recentCities))

(***************************************************************************)
(* C3: the in-memory recentCities list has at most 5 entries and no two    *)
(* entries equal under case-insensitive comparison, whatever the persisted *)
(* 'recentCities' entry was at initialization.                             *)
(***************************************************************************)
C3_RecentCitiesBounded ==
    /\ Len(recentCities) <= 5
    /\ \A j, k \in 1..Len(recentCities) :
          j # k => ~CaseEqual(recentCities[j], recentCities[k])

(***************************************************************************)
(* C4: when a loadWeather operation fails with HTTP 404, error becomes     *)
(* "City not found. Please check the spelling and try again."; and neither *)
(* the start nor the failure (404 or any other) of a loadWeather operation *)
(* changes current, forecast, city or recentCities.                        *)
(***************************************************************************)
Frame == <<current, forecast, city, recentCities>>

C4_Step(i) ==
    /\ (InFlight(i) /\ ops[i].kind = "name"
        /\ (CurrentFailure(i, E404) \/ ForecastFailure(i, E404)))
         => (error' = MsgCityNotFound /\ CompletesFailed(i))
    /\ (CompletesFailed(i) /\ ops[i].kind = "name")
         => (UNCHANGED Frame /\ error' # NoError)

C5_Quiescent ==
    /\ (\A i \in Started : ~InFlight(i)) => loading = FALSE
    /\ \A i \in Started :
          (ops[i].cur # "pending" /\ ops[i].fore # "pending") => ~InFlight(i)

C5_LoadingReset ==
    /\ []C5_Quiescent
    /\ [][\A i \in Started : Completes(i) => loading' = FALSE]_vars
    /\ [][Starts => (StartsInFlight \/ loading' = FALSE)]_vars
    /\ \A i \in 1..FairStarted : (i \in Started) ~> (i \in Started /\ ~InFlight(i))

\* all operations have completed, failures of both kinds among them, and
\* loading is false
C5_Witness ==
    /\ Len(ops) = FairStarted
    /\ \A i \in Started : ~InFlight(i)
    /\ \E i \in Started : ops[i].result = "failed"
    /\ \E i \in Started : ops[i].result = "ok"
    /\ current.q = Here
    /\ loading = FALSE

(***************************************************************************)
(* C6: loading is true in every state in which a load operation has        *)
(* started and not yet completed.                                          *)
(***************************************************************************)
C6_LoadingWhileInFlight ==
    (\E i \in Started : InFlight(i)) => loading = TRUE

(***************************************************************************)
(* C7: right after a load operation completes successfully error is null,  *)
(* and a load operation that starts (and stays in flight) resets error to  *)
(* null.                                                                   *)
(***************************************************************************)
C7_SuccessClearsError ==
    [][/\ \A i \in Started : CompletesOk(i) => error' = NoError
       /\ StartsInFlight => error' = NoError]_vars

(***************************************************************************)
(* C8 (as amended): overlapping loadWeather calls are independent and      *)
(* unordered: no step cancels an operation in flight (it stays in flight,  *)
(* with the same arguments, until one of its own fetches settles), every   *)
(* successful completion of a loadWeather makes current, forecast and city *)
(* those of that call, also when a call issued after it has completed      *)
(* before, and a call that fails leaves current, forecast and city as      *)
(* they are.                                                               *)
(***************************************************************************)
C8_Step(i) ==
    /\ InFlight(i) =>
          \/ ops'[i] = ops[i]
          \/ ops[i].cur = "pending" /\ ops'[i].cur # "pending"
          \/ ops[i].fore = "pending" /\ ops'[i].fore # "pending"
    /\ (CompletesOk(i) /\ ops[i].kind = "name") =>
          /\ current'.op = i /\ current'.q = ops[i].q
          /\ forecast'.op = i /\ forecast'.q = ops[i].q
          /\ city' = ops[i].q
    /\ (CompletesFailed(i) /\ ops[i].kind = "name") =>
          UNCHANGED <<current, forecast, city>>

C8_LastSuccessWins == [][\A i \in Started : C8_Step(i)]_vars

\* the initial load of the default city, issued first, completed after a
\* search issued later and is the one displayed
C8_Witness ==
    /\ current.op = 1
    /\ city = DefaultCity
    /\ recentCities = <<DefaultCity, "Paris">>
    /\ \A i \in Started : ~InFlight(i)

(***************************************************************************)
(* C8 as claimed: of two overlapping loadWeather calls, the one that       *)
(* completes last determines current, forecast and city.  Stated for a     *)
(* call that completes while the result of a loadWeather issued after it   *)
(* is displayed: after the step the displayed state is that of the call    *)
(* that just completed.                                                    *)
(***************************************************************************)
C8_LastCompletionWins ==
    [][\A i \in Started :
         (Completes(i) /\ ops[i].kind = "name"
          /\ current.op > i /\ current.q # Here) =>
            (current'.op = i /\ forecast'.op = i /\ city' = ops[i].q)]_vars

(***************************************************************************)
(* C9 (as amended): toggleUnits, also right after a loadWeather that is    *)
(* still in flight, sets units to the opposite value, passes that value to *)
(* setItem under 'units' and leaves the operations in flight alone; when a *)
(* city is set (city is not the empty string) it starts exactly one more   *)
(* load operation, a loadWeather of the city current at that moment with   *)
(* both fetches in the new units; when no city is set it starts none.      *)
(***************************************************************************)
C9_Step ==
    LET n == Len(ops') IN
    (units' # units) =>
      /\ units' = (IF units = "metric" THEN "imperial" ELSE "metric")
      /\ setItemCalls'.units = Stored(units')
      /\ storageMode = "ok" => storage'.units = Stored(units')
      /\ \A i \in Started : ops'[i] = ops[i]
      /\ city # "" =>
           /\ Starts
           /\ ops'[n].kind = "name" /\ ops'[n].q = city
           /\ ops'[n].cu = units' /\ ops'[n].fu = units'
           /\ ops'[n].cur = fetchCall /\ ops'[n].fore = fetchCall
      /\ city = "" => ops' = ops

C9_ToggleUnitsRefetches == [][C9_Step]_vars

\* a search for Paris is in flight in metric units, the toggle that
\* followed it refetches the city still current, Kolkata, in imperial units
C9_Witness ==
    /\ Len(ops) = 3
    /\ InFlight(2) /\ ops[2].q = "Paris" /\ ops[2].cu = "metric"
    /\ InFlight(3) /\ ops[3].q = DefaultCity /\ city = DefaultCity
    /\ ops[3].cu = "imperial" /\ ops[3].fu = "imperial"
    /\ units = "imperial"
    /\ storage.units = Stored("imperial")

(***************************************************************************)
(* C9 as claimed: a toggleUnits that follows a loadWeather still in flight *)
(* flips units, passes the new value to setItem under 'units' and starts   *)
(* exactly one more load operation, with the new units.                    *)
(***************************************************************************)
C9_ToggleAlwaysRefetches ==
    [][(units' # units /\ \E i \in Started : InFlight(i) /\ ops[i].kind = "name") =>
         /\ units' = (IF units = "metric" THEN "imperial" ELSE "metric")
         /\ setItemCalls'.units = Stored(units')
         /\ Starts
         /\ ops'[Len(ops')].cu = units' /\ ops'[Len(ops')].fu = units']_vars

(***************************************************************************)
(* C10: units is always 'metric' or 'imperial' and theme always 'dark' or  *)
(* 'light'; at construction each is the persisted value when that value    *)
(* can be read and is one of the two, and the default 'metric' / 'dark'    *)
(* when it is absent, empty, any other string, or unreadable.              *)
(***************************************************************************)
C10_ValidPreferences ==
    /\ units \in Units
    /\ theme \in Themes
    /\ ~mounted =>
         /\ units = (IF storageMode # "disabled"
                        /\ storage.units \in {Stored("metric"), Stored("imperial")}
                     THEN storage.units.val ELSE "metric")
         /\ theme = (IF storageMode # "disabled"
                        /\ storage.theme \in {Stored("dark"), Stored("light")}
                     THEN storage.theme.val ELSE "dark")

\* an arbitrary string was persisted under 'units': the default is used
C10_Witness ==
    /\ ~mounted
    /\ storage.units = Stored("celsius")
    /\ units = "metric"
    /\ theme = "dark"

(***************************************************************************)
(* C11: every call of toggleTheme turns 'dark' into 'light' and 'light'    *)
(* into 'dark' and passes the new value to setItem under 'theme' (where it *)
(* is stored, when storage accepts the write); nothing else changes theme  *)
(* or writes under 'theme'; so that a second call, made in the state the   *)
(* first one leaves, returns theme to the value before the first call and  *)
(* writes that value.                                                      *)
(***************************************************************************)
Opposite(t) == CHOOSE o \in Themes : o # t

C11_Step ==
    (theme' # theme \/ setItemCalls'.theme # setItemCalls.theme) =>
      /\ theme' = Opposite(theme)
      /\ setItemCalls'.theme = Stored(theme')
      /\ storageMode = "ok" => storage'.theme = Stored(theme')
      \* the second call, from the state this one leaves
      /\ nextTheme(theme') = theme
      /\ called(setItemCalls', "theme", nextTheme(theme')).theme = Stored(theme)
      /\ storageMode = "ok" =>
            setItem(storageMode, storage', "theme", nextTheme(theme')).theme
              = Stored(theme)

C11_ToggleThemeTwice ==
    /\ [][C11_Step]_vars
    /\ [](setItemCalls.theme.present => setItemCalls.theme = Stored(theme))

\* the persisted theme was 'light'; the last toggleTheme call wrote 'light'
\* again, so the theme went to 'dark' and came back
C11_Witness ==
    /\ mounted
    /\ recentCities = FiveCities
    /\ theme = "light"
    /\ setItemCalls.theme = Stored("light")
    /\ storage.theme = Stored("light")

(***************************************************************************)
(* C12: the error a failed load sets is given by the first matching rule   *)
(* of: status 401, the authentication message; status 429, the             *)
(* too-many-requests message; status 404, the not-found message of the     *)
(* operation kind; no response and the failure message 'Network Error',    *)
(* the network message; otherwise, for loadWeather the message field of    *)
(* the response body when there is a (non-empty) one and else "City not    *)
(* found. Please try again.", for loadWeatherByCoords "Could not fetch     *)
(* weather for your location.".  Every failure, of either kind of          *)
(* operation, sets exactly one such string, also the failure of a call     *)
(* rejected for the missing credential.                                    *)
(***************************************************************************)
C12_Rules(kind, e) ==
    LET rule1 == e.status = 401
        rule2 == e.status = 429
        rule3 == e.status = 404
        rule4 == ~e.response /\ e.message = "Network Error"
    IN  CASE rule1 -> MsgAuth
          [] ~rule1 /\ rule2 -> MsgRate
          [] ~rule1 /\ ~rule2 /\ rule3 ->
               (IF kind = "name" THEN MsgCityNotFound ELSE MsgLocationNotFound)
          [] ~rule1 /\ ~rule2 /\ ~rule3 /\ rule4 -> MsgNetwork
          [] OTHER ->
               (IF kind = "coords" THEN MsgLocationGeneric
                ELSE IF e.body \in BodyMessages \ {""} THEN e.body
                ELSE MsgCityGeneric)

C12_Strings ==
    {MsgAuth, MsgRate, MsgCityNotFound, MsgLocationNotFound, MsgNetwork,
     MsgCityGeneric, MsgLocationGeneric} \cup (BodyMessages \ {""})

C12_Step(i) ==
    /\ \A e \in AllFailures :
          (InFlight(i) /\ (CurrentFailure(i, e) \/ ForecastFailure(i, e))) =>
             error' = C12_Rules(ops[i].kind, e)
    /\ CompletesFailed(i) => error' \in C12_Strings

C12_ErrorMessageMapping ==
    [][/\ \A i \in Started : C12_Step(i)
       /\ (Starts /\ ~StartsInFlight) =>
             /\ error' = C12_Rules(ops'[Len(ops')].kind, ECredential)
             /\ error' \in C12_Strings]_vars

\* a by-coordinates load failed with a status that has no rule of its own
\* and a body message: the generic location message is shown
C12_Witness ==
    /\ error = MsgLocationGeneric
    /\ Truthy(apiKey)
    /\ \E i \in Started : ops[i].result = "failed"
    /\ \A i \in Started : ~InFlight(i)

(***************************************************************************)
(* C13: when a request of a load operation gets no response (the request   *)
(* got no answer, or the client's 10-second timeout expired), the error    *)
(* set is "Network error. Please check your connection and try again.",    *)
(* for loadWeather and for loadWeatherByCoords.                            *)
(***************************************************************************)
C13_TransportFailureMessage ==
    [][\A i \in Started : \A e \in TransportFailures :
         (InFlight(i) /\ (CurrentFailure(i, e) \/ ForecastFailure(i, e))) =>
            error' = MsgNetwork]_vars

(***************************************************************************)
(* C14: while the credential is absent or empty, each of                   *)
(* fetchCurrentWeather, fetchCurrentWeatherByCoords, fetchForecast,        *)
(* fetchForecastByCoords and searchCities is rejected with the             *)
(* credential-not-configured error without sending a request, on every     *)
(* call: a load operation that is started has sent neither of its          *)
(* requests and has failed, a suggestion lookup sends no request, and no   *)
(* request is ever in flight; with the credential configured the calls     *)
(* send their requests, carrying it.                                       *)
(***************************************************************************)
C14_Calls ==
    {fetchCurrentWeather(c, u) : c \in CityInputs \cup {DefaultCity}, u \in Units}
    \cup {fetchCurrentWeatherByCoords(Here, u) : u \in Units}
    \cup {fetchForecast(c, u) : c \in CityInputs \cup {DefaultCity}, u \in Units}
    \cup {fetchForecastByCoords(Here, u) : u \in Units}
    \cup {searchCities(val) : val \in SearchInputs}

C14_NoCredential == apiKey \in {NoKey, EmptyKey}

C14_State ==
    IF C14_NoCredential
    THEN /\ \A call \in C14_Calls : ~call.sent /\ call.error = API_KEY_ERROR
         /\ searches = <<>>
         /\ \A i \in Started :
               /\ ops[i].cur = "unsent" /\ ops[i].fore = "unsent"
               /\ ops[i].result = "failed"
    ELSE \A call \in C14_Calls :
            call.sent /\ call.appid = apiKey.val /\ call.error = ""

C14_CredentialChecked ==
    /\ []C14_State
    /\ [][(Starts /\ ~C14_NoCredential) =>
            (ops'[Len(ops')].cur = "pending" /\ ops'[Len(ops')].fore = "pending")]_vars
    /\ [][(Starts /\ C14_NoCredential) =>
            (\A i \in Started : ops'[i] = ops[i]) /\ ~loading']_vars

\* the credential is defined but empty: a search and a geolocation load
\* were rejected without a request, and so was a suggestion lookup, which
\* left no request in flight
C14_Witness ==
    /\ apiKey = EmptyKey
    /\ Len(ops) = 2
    /\ ops[1].kind = "name" /\ ops[2].kind = "coords"
    /\ ops[2].cur = "unsent" /\ ops[2].fore = "unsent"
    /\ error = MsgLocationGeneric
    /\ debounce = NoTimer
    /\ searches = <<>>
    /\ ~locating

(***************************************************************************)
(* C15: the first thing the constructed store does is the initial load,    *)
(* loadWeather of the default city 'Kolkata' with the initial unit         *)
(* preference in both fetches; nothing is loaded before it; and it happens *)
(* once: afterwards every load operation that starts is started by a user  *)
(* action (a search, a recent-city chip, the unit toggle, a geolocation    *)
(* result), whatever city, units and theme have become.                    *)
(***************************************************************************)
C15_UserStarts ==
    \/ \E c \in CityInputs : Search(c)
    \/ \E k \in 2..Len(recentCities) : RecentChip(k)
    \/ toggleUnits
    \/ \E k \in 1..Len(geo) : GeolocateSuccess(k)

C15_Step ==
    /\ ~mounted =>
          /\ mounted'
          /\ Len(ops') = 1
          /\ ops'[1].kind = "name" /\ ops'[1].q = DefaultCity
          /\ ops'[1].cu = InitialUnits(storageMode, persisted)
          /\ ops'[1].fu = InitialUnits(storageMode, persisted)
          /\ UNCHANGED <<city, units, theme>>
    /\ mounted => (mounted' /\ (Starts => C15_UserStarts))

C15_InitialLoadOnce ==
    /\ [][C15_Step]_vars
    /\ [](mounted <=> Len(ops) >= 1)
    /\ [](~mounted => (city = DefaultCity
                        /\ units = InitialUnits(storageMode, persisted)))

\* after the initial load the city, the units and the theme have all
\* changed, and the third operation is the refetch of the unit toggle
C15_Witness ==
    /\ mounted
    /\ persisted = FirstVisit
    /\ city = "Paris"
    /\ recentCities = <<"Paris", DefaultCity>>
    /\ units = "imperial"
    /\ theme = "light"
    /\ Len(ops) = 3
    /\ InFlight(3) /\ ops[3].q = "Paris" /\ ops[3].cu = "imperial"

(***************************************************************************)
(* C16: when localStorage.setItem throws (storage full or blocked), the    *)
(* operation that called it goes on as if the write had succeeded: a       *)
(* successful loadWeather still replaces current, forecast and city, puts  *)
(* the city at the head of recentCities, leaves error as it was and sets   *)
(* loading to false; toggleUnits still flips units and, when a city is     *)
(* set, starts its refetch with the new units; toggleTheme still flips     *)
(* theme; none of them throws, none sets error because of the write, and   *)
(* the stored contents stay as they were.                                  *)
(***************************************************************************)
C16_Load(i) ==
    LET c == ops[i].q
        wanted == <<c>> \o Others(recentCities, c)
    IN  (CompletesOk(i) /\ ops[i].kind = "name") =>
          /\ setItemCalls'.recentCities.present
          /\ current'.op = i /\ current'.q = c
          /\ forecast'.op = i /\ forecast'.q = c
          /\ city' = c
          /\ recentCities' = slice(wanted, 5)
          /\ error' = error
          /\ loading' = FALSE

C16_Step ==
    storageMode # "ok" =>
      /\ storage' = storage
      /\ uncaught' = uncaught
      /\ \A i \in Started : C16_Load(i)
      /\ (setItemCalls'.units # setItemCalls.units \/ units' # units) =>
            /\ units' = (IF units = "metric" THEN "imperial" ELSE "metric")
            /\ setItemCalls'.units = Stored(units')
            /\ city # "" =>
                  /\ Starts
                  /\ ops'[Len(ops')].q = city
                  /\ ops'[Len(ops')].cu = units' /\ ops'[Len(ops')].fu = units'
                  /\ error' = (IF StartsInFlight THEN NoError
                               ELSE loadWeatherMessage(ECredential))
            /\ city = "" => error' = error
      /\ (setItemCalls'.theme # setItemCalls.theme \/ theme' # theme) =>
            /\ theme' = Opposite(theme)
            /\ setItemCalls'.theme = Stored(theme')
            /\ error' = error /\ loading' = loading

C16_StorageFailureContained == [][C16_Step]_vars

\* storage is full: the initial load succeeded and its city heads the
\* list, the units were toggled and the refetch succeeded too, the theme
\* was toggled; nothing was stored, error is null and loading false
C16_Witness ==
    /\ storageMode = "full"
    /\ Truthy(apiKey)
    /\ storage = EmptyContents
    /\ current.op = 2 /\ current.units = "imperial"
    /\ recentCities = <<DefaultCity>>
    /\ units = "imperial"
    /\ theme = "light"
    /\ setItemCalls.recentCities.present
    /\ setItemCalls.units = Stored("imperial")
    /\ setItemCalls.theme = Stored("light")
    /\ error = NoError
    /\ ~loading
    /\ ~uncaught

(***************************************************************************)
(* C17: constructing the store never throws on the persisted               *)
(* 'recentCities' entry, and recentCities starts as the empty list when    *)
(* the entry is absent, is empty, is not JSON, is JSON but not an array,   *)
(* or cannot be read; it starts as the parsed value only when the entry    *)
(* parses as a JSON array.                                                 *)
(***************************************************************************)
C17_Entry == persisted.recentCities

C17_Usable ==
    /\ storageMode # "disabled"
    /\ C17_Entry.present
    /\ JSONparse(C17_Entry.val).ok
    /\ JSONparse(C17_Entry.val).isArray

C17_SafeRecentCitiesInit ==
    ~mounted =>
      /\ ~uncaught
      /\ C17_Usable => recentCities = JSONparse(C17_Entry.val).items
      /\ ~C17_Usable => recentCities = <<>>

\* the persisted entry was not JSON: the list starts empty (and the entry
\* has been removed)
C17_Witness ==
    /\ ~mounted
    /\ persisted.recentCities = Stored(<<WordTok("oops")>>)
    /\ recentCities = <<>>
    /\ storage.recentCities = AbsentList
    /\ ~uncaught

(***************************************************************************)
(* C18: when a geolocation request fails, error becomes the message of     *)
(* the failure: 'Location access denied. Please enable location            *)
(* permissions.' for permission-denied, 'Location information              *)
(* unavailable.' for position-unavailable, 'Location request timed out.    *)
(* Please try again.' for timeout, and, without attempting the lookup,     *)
(* 'Geolocation is not supported by your browser.' when the browser has no *)
(* geolocation capability; in each case locating is false afterwards and   *)
(* no load operation is started.                                           *)
(***************************************************************************)
C18_Message(code) ==
    CASE code = 1 -> "Location access denied. Please enable location permissions."
      [] code = 2 -> "Location information unavailable."
      [] code = 3 -> "Location request timed out. Please try again."

C18_GeolocationFailureMessage ==
    [][/\ \A k \in 1..Len(geo) : \A code \in {1, 2, 3} :
            GeolocateError(k, code) =>
               (error' = C18_Message(code) /\ ~locating' /\ ops' = ops)
       /\ (~geolocation /\ handleGeolocate) =>
            /\ error' = "Geolocation is not supported by your browser."
            /\ ~locating' /\ ops' = ops /\ geo' = geo]_vars

(***************************************************************************)
(* C19: a loadWeatherByCoords that is invoked (by the success callback of  *)
(* a geolocation lookup) sends both fetches with the unit preference the   *)
(* store has at that moment; when both succeed, city becomes the name      *)
(* reported by the current-weather response; when it fails, error is one   *)
(* of the geolocation messages.                                            *)
(***************************************************************************)
C19_Step(i) ==
    /\ (CompletesOk(i) /\ ops[i].kind = "coords") =>
          (current'.op = i /\ current'.name \in CoordNames /\ city' = current'.name)
    /\ (CompletesFailed(i) /\ ops[i].kind = "coords") =>
          error' \in {MsgAuth, MsgRate, MsgLocationNotFound, MsgNetwork,
                      MsgLocationGeneric}

C19_CoordsLoadUsesCurrentUnits ==
    [][/\ \A k \in 1..Len(geo) :
            GeolocateSuccess(k) =>
               /\ Starts
               /\ ops'[Len(ops')].kind = "coords"
               /\ ops'[Len(ops')].cu = units
               /\ ops'[Len(ops')].fu = units
       /\ \A i \in Started : C19_Step(i)]_vars

(***************************************************************************)
(* C20: while the forecast snapshot has a list that is missing, is not an  *)
(* array or is an empty array, ForecastSection (grouping by day) and       *)
(* HourlyForecast (the first entries) do not throw and render nothing; and *)
(* for no forecast snapshot does either of them throw.                     *)
(***************************************************************************)
C20_NoEntries ==
    /\ forecast.op # 0
    /\ \/ ~forecast.list.present
       \/ ~forecast.list.isArray
       \/ forecast.list.items = <<>>

C20_EmptyForecastRendersNothing ==
    /\ C20_NoEntries =>
          /\ ForecastSection(forecast) = Nothing
          /\ HourlyForecast(forecast, current) = Nothing
    /\ ForecastSection(forecast).kind # "throws"
    /\ HourlyForecast(forecast, current).kind # "throws"

\* a load succeeded with a forecast response whose list is not an array
C20_Witness ==
    /\ forecast.op # 0
    /\ current.op = forecast.op
    /\ forecast.list = ListNotArray
    /\ ForecastSection(forecast) = Nothing
    /\ HourlyForecast(forecast, current) = Nothing

(***************************************************************************)
(* C21: in every state in which no load operation is in flight and a       *)
(* snapshot is shown, the units the current and the forecast snapshot were *)
(* fetched with are the unit preference (from which the unit labels are    *)
(* chosen), whatever loads and unit toggles came before and however they   *)
(* ended.                                                                  *)
(***************************************************************************)
C21_SnapshotUnitsMatchPreference ==
    ((\A i \in Started : ~InFlight(i)) /\ current.op # 0) =>
       (current.units = units /\ forecast.units = units)

(***************************************************************************)
(* C22: as long as no write to storage has failed, a store constructed     *)
(* from the present contents of storage starts with the units, the theme   *)
(* and the recentCities list of the running store.                         *)
(***************************************************************************)
C22_WritesSucceeded == storageMode = "ok" \/ setItemCalls = EmptyContents

C22_PersistenceRoundTrip ==
    C22_WritesSucceeded =>
      /\ InitialUnits(storageMode, storage) = units
      /\ InitialTheme(storageMode, storage) = theme
      /\ InitialRecentCities(storageMode, storage) = recentCities

\* a returning user toggled the units and the theme and the refetch of the
\* toggle succeeded: the three values were written and read back the same
C22_Witness ==
    /\ storageMode = "ok"
    /\ persisted = ReturningUser
    /\ units = "metric" /\ setItemCalls.units = Stored("metric")
    /\ theme = "dark" /\ setItemCalls.theme = Stored("dark")
    /\ Len(recentCities) = 5 /\ recentCities[1] = DefaultCity
    /\ setItemCalls.recentCities.present
    /\ InitialRecentCities(storageMode, storage) = recentCities
    /\ \A i \in Started : ~InFlight(i)

(***************************************************************************)
(* C23: once the store is constructed, storage that can be accessed holds  *)
(* under 'recentCities' either no entry or one that parses as a JSON       *)
(* array: an entry that does not (text that is not JSON, or JSON that is   *)
(* not an array) has been removed; and the construction never throws.      *)
(***************************************************************************)
C23_CorruptedListRemoved ==
    /\ ~uncaught
    /\ (~mounted /\ storageMode # "disabled") =>
          \/ ~storage.recentCities.present
          \/ JSONparse(storage.recentCities.val).isArray

(***************************************************************************)
(* C24: with the credential absent (or empty), a loadWeather that is       *)
(* started ends at once, with loading false, current and forecast as they  *)
(* were and error "City not found. Please try again."; a                   *)
(* loadWeatherByCoords ends with error "Could not fetch weather for your   *)
(* location."; the credential error is caught inside the operation.        *)
(***************************************************************************)
C24_Step ==
    LET o == ops'[Len(ops')] IN
    (Starts /\ ~Truthy(apiKey)) =>
      /\ o.result = "failed"
      /\ o.cur = "unsent" /\ o.fore = "unsent"
      /\ loading' = FALSE
      /\ UNCHANGED <<current, forecast>>
      /\ uncaught' = uncaught
      /\ o.kind = "name" => error' = "City not found. Please try again."
      /\ o.kind = "coords" => error' = "Could not fetch weather for your location."

C24_CredentialErrorIsGeneric ==
    /\ [][C24_Step]_vars
    /\ [](~Truthy(apiKey) => (~loading /\ ~uncaught
                               /\ current = NoCurrent /\ forecast = NoForecast))

\* the credential is not defined: the initial load has ended with the
\* generic message of loadWeather
C24_Witness ==
    /\ apiKey = NoKey
    /\ Len(ops) = 1
    /\ ops[1].kind = "name" /\ ops[1].result = "failed"
    /\ error = "City not found. Please try again."
    /\ ~loading
    /\ current = NoCurrent

(***************************************************************************)
(* C25: the search bar has at most one timeout pending at any time, set by *)
(* the last keystroke, for the input of that keystroke, whose trimmed      *)
(* length is at least 2; searchCities is called only when that timeout     *)
(* fires, with that input; a keystroke removes the timeout of the one      *)
(* before it, and the teardown of the component removes the one pending,   *)
(* so that neither fires; hence keystrokes that follow each other before   *)
(* any timeout fires lead to at most one lookup.                           *)
(***************************************************************************)
C25_Timers ==
    /\ Len(timers) <= 1
    /\ debounce \in {NoTimer} \cup (1..Len(timers))
    /\ \A k \in 1..Len(timers) : k = debounce /\ trimLength(timers[k]) >= 2
    /\ unmounted => timers = <<>>

C25_Step ==
    /\ \A val \in SearchInputs :
          handleInput(val) =>
             timers' = (IF trimLength(val) < 2 THEN <<>> ELSE <<val>>)
    /\ \A k \in 1..Len(timers) :
          DebounceFires(k) =>
             /\ k = debounce
             /\ ~unmounted
             /\ timers' = <<>>
             /\ searches' \in {searches, Append(searches, timers[k])}
    /\ Len(searches') > Len(searches) =>
          /\ timers # <<>>
          /\ trimLength(timers[debounce]) >= 2
          /\ searches' = Append(searches, timers[debounce])
          /\ timers' = <<>>

C25_SingleDebounceTimer == []C25_Timers /\ [][C25_Step]_vars

\* the lookup of 'Pa' is in flight, the keystroke after it made the input
\* 'Par' and its timeout is pending, the only one
C25_Witness ==
    /\ searches = <<"Pa">>
    /\ timers = <<"Par">>
    /\ debounce = 1
    /\ ~unmounted

(***************************************************************************)
(* C26: no step of a loadWeatherByCoords (its start, its success, its      *)
(* failure) changes recentCities, units or theme, nor what storage holds   *)
(* or was asked to hold; recentCities changes only when a loadWeather by   *)
(* name succeeds, which puts its city at the head.                         *)
(***************************************************************************)
C26_Preferences == <<recentCities, units, theme, storage, setItemCalls>>

C26_Step ==
    /\ \A k \in 1..Len(geo) :
          GeolocateSuccess(k) =>
             (ops'[Len(ops')].kind = "coords" /\ UNCHANGED C26_Preferences)
    /\ \A i \in Started :
          (ops[i].kind = "coords" /\ ops'[i] # ops[i]) => UNCHANGED C26_Preferences
    /\ recentCities' # recentCities =>
          \E i \in Started :
             /\ CompletesOk(i)
             /\ ops[i].kind = "name"
             /\ recentCities'[1] = ops[i].q

C26_CoordsLoadKeepsPreferences == [][C26_Step]_vars

\* a by-coordinates load succeeded and a load after it failed; the city
\* shown, Pune, is not in the recent-city list
C26_Witness ==
    /\ current.q = Here
    /\ city = "Pune"
    /\ recentCities = <<DefaultCity>>
    /\ storage.recentCities = Stored(JSONstringify(<<DefaultCity>>))
    /\ Len(ops) = 3
    /\ ops[3].result = "failed" /\ error = MsgNetwork
    /\ ~loading

(***************************************************************************)
(* C27: a toggleTheme call, also one made while a load operation is in     *)
(* flight, changes theme and the value held under 'theme' and nothing      *)
(* else: it starts no load operation and sends no request, and loading,    *)
(* error, current, forecast, city, units and recentCities, the operations  *)
(* in flight and the other stored values stay as they are.                 *)
(***************************************************************************)
C27_Step ==
    (theme' # theme \/ setItemCalls'.theme # setItemCalls.theme) =>
      /\ UNCHANGED <<loading, error, current, forecast, city, units, recentCities>>
      /\ UNCHANGED <<ops, geo, searches, timers>>
      /\ storage'.units = storage.units
      /\ storage'.recentCities = storage.recentCities
      /\ setItemCalls'.units = setItemCalls.units
      /\ setItemCalls'.recentCities = setItemCalls.recentCities

C27_ToggleThemeFrame == [][C27_Step]_vars

\* the theme was toggled while the initial load was in flight, which it
\* still is
C27_Witness ==
    /\ Len(ops) = 1
    /\ InFlight(1)
    /\ loading
    /\ theme = "light"
    /\ persisted = FirstVisit
    /\ setItemCalls.theme = Stored("light")
    /\ error = NoError

(***************************************************************************)
(* C28: from the selection of a suggestion or the submission of the form,  *)
(* and from an input of fewer than 2 characters, until the next input, the *)
(* suggestion list is empty and the dropdown is not shown: no timeout that *)
(* was pending and no lookup that was in flight at that moment fills the   *)
(* list or opens the dropdown afterwards.  The text of the search field    *)
(* tells which event came last: a selection leaves a city name in it, an   *)
(* input leaves what was typed.                                            *)
(***************************************************************************)
C28_AfterSelection == query \in CityInputs
C28_AfterShortInput == query \in SearchInputs /\ trimLength(query) < 2

C28_SelectionClosesDropdown ==
    (C28_AfterSelection \/ C28_AfterShortInput) =>
       (suggestions = <<>> /\ ~dropdownShown)

(***************************************************************************)
(* C29: in every state, from the initial load on, in which no load         *)
(* operation is in flight and recentCities is not empty, its first entry   *)
(* is the city displayed                                                   *)
(* (recentCities[1] = city), so that the recent-searches view, which shows *)
(* the entries after the first, leaves out exactly the displayed city.     *)
(***************************************************************************)
C29_HeadIsDisplayedCity ==
    (mounted /\ (\A i \in Started : ~InFlight(i)) /\ recentCities # <<>>) =>
       recentCities[1] = city

(***************************************************************************)
(* C30: for every chronologically ordered forecast list, groupByDay        *)
(* returns at most 5 groups, one per date, in ascending date order,        *)
(* without the group of the first date of the list: the groups of the 2nd  *)
(* to the 6th date; a group holds exactly the entries of the list that     *)
(* carry its date, in the order of the list; and the hourly view is the    *)
(* first min(9, n) entries of the same list, which the grouping leaves as  *)
(* it was.                                                                 *)
(***************************************************************************)
C30_List == forecast.list.items
C30_Groups == groupByDay(C30_List)
C30_Hours == HourlyForecast(forecast, current)

\* the position of a date in the calendar, of an entry in a list
C30_DayNumber(date) == CHOOSE k \in 1..Len(Days) : Days[k] = date
C30_Position(list, item) == CHOOSE p \in 1..Len(list) : list[p] = item

\* the dates the entries of a list carry
C30_DatesOf(list) == {dateOf(list[p]) : p \in 1..Len(list)}

C30_GroupOk(list, g) ==
    LET date == g[1]
        entries == g[2]
    IN  /\ date \in C30_DatesOf(list)
        /\ date # dateOf(list[1])
        /\ entries # <<>>
        /\ \A a \in 1..Len(entries) : dateOf(entries[a]) = date
        /\ \A a \in 1..(Len(entries) - 1) :
              C30_Position(list, entries[a]) < C30_Position(list, entries[a + 1])
        /\ \A p \in 1..Len(list) :
              dateOf(list[p]) = date =>
                 \E a \in 1..Len(entries) : entries[a] = list[p]

C30_GroupByDayPartition ==
    LET list == C30_List
        groups == C30_Groups
        hours == C30_Hours
        dates == C30_DatesOf(list)
    IN  (forecast.op # 0 /\ list # <<>>) =>
          /\ ForecastSection(forecast) = Rendered(groups)
          /\ Len(groups) <= 5
          /\ Len(groups) = (IF Cardinality(dates) - 1 < 5
                            THEN Cardinality(dates) - 1 ELSE 5)
          /\ \A k \in 1..Len(groups) : C30_GroupOk(list, groups[k])
          /\ \A k \in 1..(Len(groups) - 1) :
                C30_DayNumber(groups[k][1]) < C30_DayNumber(groups[k + 1][1])
          \* no date between the first date and a returned one is left out
          /\ \A k \in 1..Len(groups) :
                Cardinality({d \in dates :
                               C30_DayNumber(d) < C30_DayNumber(groups[k][1])}) = k
          /\ hours.kind = "rendered"
          /\ Len(hours.entries) = (IF Len(list) < 9 THEN Len(list) ELSE 9)
          /\ \A p \in 1..Len(hours.entries) : hours.entries[p] = list[p]

\* a forecast of 7 days and 14 entries: 5 days are returned, the 2nd to
\* the 6th, and 9 hours
C30_Witness ==
    /\ forecast.op # 0
    /\ Len(C30_List) = 14
    /\ Cardinality(C30_DatesOf(C30_List)) = 7
    /\ Len(C30_Groups) = 5
    /\ C30_Groups[1][1] = Days[2]
    /\ C30_Groups[5][1] = Days[6]
    /\ Len(C30_Hours.entries) = 9

====
